---- MODULE Spec2Model ----
(***************************************************************************)
(* A model of SnapNForce's parcel synchronisation: the county record of a  *)
(* parcel (owner and mailing address, once from the general page and once  *)
(* from the tax page) is reconciled against the rows of the local store.   *)
(*                                                                         *)
(*   app/lib.py                sync_parcel_data, _sync_owner_and_mailing,  *)
(*                             _cog_tables_to_owner_and_mailing,           *)
(*                             get_cog_tables, _match_number               *)
(*   app/operations/select.py  the selects of active rows (scalar_one)     *)
(*   app/app.py                the /parcel/sync and /municipality/sync     *)
(*                             handlers                                    *)
(*                                                                         *)
(* app.operations.ensure / deactivate / link, app.schemas, app.orm and     *)
(* app.constants are used by these files but are not among them: they are  *)
(* modelled as the specification describes them (get-or-create on the      *)
(* active rows, soft delete by id, insert of a link row), each write       *)
(* taking effect at once in the session.                                   *)
(***************************************************************************)
EXTENDS Integers, Sequences, FiniteSets, TLC

\* The number of /parcel/sync requests and batch iterations of one run.
MaxCalls == 2

(***************************************************************************)
(* Values.  Python's None is <<>> for an optional object (Some(x) = <<x>>),*)
(* NoId for an optional row id and NoStr for an optional string.           *)
(***************************************************************************)
None == <<>>
Some(x) == <<x>>
NoId == 0
NoStr == "None"

\* app.constants.LinkedObjectRole: a pair (address-role, addressee-role)
\* per context; _match_general/_match_mortgage select by the address-role.
GENERAL_HUMAN_MAILING_ADDRESS == 1
MORTGAGE_HUMAN_MAILING_ADDRESS == 2
GENERAL_ADDRESSEE == 3
MORTGAGE_ADDRESSEE == 4
general_roles == <<GENERAL_HUMAN_MAILING_ADDRESS, GENERAL_ADDRESSEE>>
mortgage_roles == <<MORTGAGE_HUMAN_MAILING_ADDRESS, MORTGAGE_ADDRESSEE>>
AddressRoles == {GENERAL_HUMAN_MAILING_ADDRESS, MORTGAGE_HUMAN_MAILING_ADDRESS}

\* orm.Parcel: never written by the synchronisation.  P3 is deactivated and
\* P9 has no row at all.
ParcelTable ==
    << [parcelkey |-> 1, parcelidcnty |-> "P1", muni_municode |-> 1, active |-> TRUE],
       [parcelkey |-> 2, parcelidcnty |-> "P2", muni_municode |-> 1, active |-> TRUE],
       [parcelkey |-> 3, parcelidcnty |-> "P3", muni_municode |-> 2, active |-> FALSE] >>
ParcelIds == {"P1", "P2", "P3", "P9"}
Municodes == {1, 2}

\* schemas.Owner, schemas.Mailing, schemas.OwnerAndMailing as the county
\* pages yield them: the owner is always present, the mailing is optional.
Owners ==
    { [name |-> "ANN", is_multi_entity |-> FALSE],
      [name |-> "ANN & BOB", is_multi_entity |-> TRUE] }
MkMailing(number) ==
    [ delivery |-> [is_pobox |-> FALSE, attn |-> NoStr, number |-> number,
                    street |-> "MAIN ST", secondary |-> NoStr],
      last |-> [city |-> "PITTSBURGH", state |-> "PA", zip |-> "15221"] ]
Mailings == { MkMailing("100"), MkMailing("102") }
OwnerAndMailings ==
    [ owner : {Some(o) : o \in Owners},
      mailing : {None} \cup {Some(m) : m \in Mailings} ]
GeneralAndMortgages == [ general : OwnerAndMailings, mortgage : OwnerAndMailings ]

\* What get_parcel_data_from_county does: it returns the normalised data, or
\* raises (the parse layer's HtmlParsingError, or mailing_from_raw_tax's
\* NotImplementedError on a fragment count other than 0 and 3).
ScrapeErrors == {"HtmlParsingError", "NotImplementedError"}
ScrapeOutcomes ==
    { [err |-> "none", data |-> Some(d)] : d \in GeneralAndMortgages }
        \cup { [err |-> e, data |-> None] : e \in ScrapeErrors }
\* The outcomes tried for a parcel id: all of them for a parcel the store may
\* reconcile, and one of each kind for an id without an active Parcel row
\* (its data is never looked at).
OutcomesFor(id) ==
    IF \E i \in DOMAIN ParcelTable : ParcelTable[i].parcelidcnty = id /\ ParcelTable[i].active
    THEN ScrapeOutcomes
    ELSE { o \in ScrapeOutcomes :
             o.err = "none" =>
                /\ o.data[1].general = o.data[1].mortgage
                /\ o.data[1].general.owner[1].name = "ANN"
                /\ o.data[1].general.mailing = Some(MkMailing("100")) }

(***************************************************************************)
(* The store.  A table is the sequence of its rows and a row's id is its   *)
(* index; active = (deactivatedts IS NULL).                                *)
(***************************************************************************)
VARIABLES db, last, calls, muni, stable, norm

vars == <<db, last, calls, muni, stable, norm>>

EmptyDb ==
    [ city_state_zip |-> <<>>, street |-> <<>>, address |-> <<>>, human |-> <<>>,
      parcel_address |-> <<>>, human_address |-> <<>>, human_parcel |-> <<>> ]

\* The ids of a table's rows that are active and satisfy Match.
ActiveIds(session, table, Match(_)) ==
    { i \in DOMAIN session[table] : session[table][i].active /\ Match(session[table][i]) }

\* Result.scalar_one(): exactly one row, or an exception.
scalar_one(ids) ==
    IF ids = {} THEN [err |-> "NoResultFound", id |-> NoId]
    ELSE IF Cardinality(ids) > 1 THEN [err |-> "MultipleResultsFound", id |-> NoId]
    ELSE [err |-> "none", id |-> CHOOSE i \in ids : TRUE]

(***************************************************************************)
(* app/operations/select.py                                                *)
(***************************************************************************)
\* select.parcel with scalar_one_or_none() for scalar_one(): no row gives None.
parcel_or_none(session, county_parcel_id) ==
    IF \E i \in DOMAIN ParcelTable :
          ParcelTable[i].parcelidcnty = county_parcel_id /\ ParcelTable[i].active
    THEN scalar_one({ i \in DOMAIN ParcelTable :
                        /\ ParcelTable[i].parcelidcnty = county_parcel_id
                        /\ ParcelTable[i].active })
    ELSE [err |-> "none", id |-> NoId]

parcel(session, county_parcel_id) ==
    scalar_one({ i \in DOMAIN ParcelTable :
                    /\ ParcelTable[i].parcelidcnty = county_parcel_id
                    /\ ParcelTable[i].active })

\* .all(): the active links of the parcel, here in the order of their ids.
RECURSIVE SortedSeq(_)
SortedSeq(S) ==
    IF S = {} THEN <<>>
    ELSE LET m == CHOOSE x \in S : \A y \in S : x <= y
         IN <<m>> \o SortedSeq(S \ {m})

parcel_mailing_addresses(session, parcel_key) ==
    LET Match(r) == r.parcel_parcelkey = parcel_key
    IN SortedSeq(ActiveIds(session, "parcel_address", Match))

address(session, address_id) ==
    scalar_one({ i \in DOMAIN session.address :
                    i = address_id /\ session.address[i].active })

street(session, street_id) ==
    scalar_one({ i \in DOMAIN session.street :
                    i = street_id /\ session.street[i].active })

city_state_zip(session, city_state_zip_id) ==
    scalar_one({ i \in DOMAIN session.city_state_zip :
                    i = city_state_zip_id /\ session.city_state_zip[i].active })

human_mailing_address(session, address_id) ==
    LET Match(r) == r.humanmailing_addressid = address_id
    IN scalar_one(ActiveIds(session, "human_address", Match))

human(session, human_id) ==
    scalar_one({ i \in DOMAIN session.human :
                    i = human_id /\ session.human[i].active })

parcels_by_municode(session, municode) ==
    SortedSeq({ i \in DOMAIN ParcelTable : ParcelTable[i].muni_municode = municode })

(***************************************************************************)
(* app/lib.py: get_cog_tables.  schemas.CogTables holds the rows of one    *)
(* chain, here by id (a row's attributes never change once inserted).      *)
(***************************************************************************)
EmptyCogTables ==
    [ parcel |-> NoId, address |-> NoId, parcel_address |-> NoId, street |-> NoId,
      city_state_zip |-> NoId, human |-> NoId, human_address |-> NoId,
      human_parcel |-> NoId ]

\* The body of the loop over the parcel's links, for one link (lines
\* 240-256).  An exception of the three address selects propagates;
\* NoResultFound of the two human selects is caught and leaves both human
\* fields None.
NoChain(err) == [err |-> err, tables |-> EmptyCogTables]

HumanOfLink(human_address_id, h) ==
    [err |-> h.err, human_address |-> human_address_id, human |-> h.id]

HumanOfAddress(session, ha) ==
    IF ha.err # "none" THEN [err |-> ha.err, human_address |-> NoId, human |-> NoId]
    ELSE HumanOfLink(ha.id, human(session, session.human_address[ha.id].humanmailing_humanid))

ChainOfHuman(link_id, address_id, street_id, city_state_zip_id, hh) ==
    IF hh.err \notin {"none", "NoResultFound"} THEN NoChain(hh.err)
    ELSE [ err |-> "none",
           tables |->
             [ parcel |-> NoId, address |-> address_id, parcel_address |-> link_id,
               street |-> street_id, city_state_zip |-> city_state_zip_id,
               human |-> IF hh.err = "none" THEN hh.human ELSE NoId,
               human_address |-> IF hh.err = "none" THEN hh.human_address ELSE NoId,
               human_parcel |-> NoId ] ]

ChainOfCityStateZip(session, link_id, address_id, street_id, c) ==
    IF c.err # "none" THEN NoChain(c.err)
    ELSE ChainOfHuman(link_id, address_id, street_id, c.id,
                      HumanOfAddress(session, human_mailing_address(session, address_id)))

ChainOfStreet(session, link_id, address_id, s) ==
    IF s.err # "none" THEN NoChain(s.err)
    ELSE ChainOfCityStateZip(session, link_id, address_id, s.id,
             city_state_zip(session, session.street[s.id].citystatezip_cszipid))

ChainOfAddress(session, link_id, a) ==
    IF a.err # "none" THEN NoChain(a.err)
    ELSE ChainOfStreet(session, link_id, a.id,
                       street(session, session.address[a.id].street_streetid))

ChainOfLink(session, link_id) ==
    ChainOfAddress(session, link_id,
                   address(session, session.parcel_address[link_id].mailingaddress_addressid))

\* The loop: the chains of the links before the first one that raises, and
\* that exception.
FirstRaised(chains) ==
    LET bad == { i \in DOMAIN chains : chains[i].err # "none" }
    IN IF bad = {} THEN [err |-> "none", tables |-> [i \in DOMAIN chains |-> chains[i].tables]]
       ELSE [err |-> chains[CHOOSE i \in bad : \A j \in bad : i <= j].err, tables |-> <<>>]

AllAddresses(session, links) ==
    FirstRaised([i \in DOMAIN links |-> ChainOfLink(session, links[i])])

\* The first chain whose parcel-address link has the role, or None.
RECURSIVE _match_number(_, _, _)
_match_number(session, num_to_match, owners_and_mailings) ==
    IF owners_and_mailings = <<>> THEN None
    ELSE IF session.parcel_address[Head(owners_and_mailings).parcel_address].linkedobjectrole_lorid
               = num_to_match
         THEN Some(Head(owners_and_mailings))
         ELSE _match_number(session, num_to_match, Tail(owners_and_mailings))

NoTables(err) == [err |-> err, general |-> None, mortgage |-> None]

\* "x or schemas.CogTables()", then ".parcel = parcel" (lines 259-261).
OrEmpty(x, parcel_row) ==
    Some([(IF x = None THEN EmptyCogTables ELSE x[1]) EXCEPT !.parcel = parcel_row])

TablesOfParcel(session, parcel_row, all) ==
    IF all.err # "none" THEN NoTables(all.err)
    ELSE [ err |-> "none",
           general |-> OrEmpty(_match_number(session, GENERAL_HUMAN_MAILING_ADDRESS, all.tables),
                               parcel_row),
           mortgage |-> OrEmpty(_match_number(session, MORTGAGE_HUMAN_MAILING_ADDRESS, all.tables),
                                parcel_row) ]

TablesOf(session, p) ==
    IF p.err # "none" THEN NoTables(p.err)
    ELSE IF p.id = NoId THEN NoTables("none")
    ELSE TablesOfParcel(session, p.id,
             AllAddresses(session, parcel_mailing_addresses(session, ParcelTable[p.id].parcelkey)))

get_cog_tables(session, parcel_id) == TablesOf(session, parcel(session, parcel_id))

(***************************************************************************)
(* The write primitives.  A session s is [db, log, ctx]: the tables, the   *)
(* writes of the running sync_parcel_data call in their order, and the     *)
(* address-role of the context being reconciled (it tags the log).         *)
(***************************************************************************)
LogEntry(s, op, table, id) == [ctx |-> s.ctx, op |-> op, table |-> table, id |-> id]

Insert(s, table, row) ==
    [ s EXCEPT !.db[table] = Append(@, row),
               !.log = Append(@, LogEntry(s, "insert", table, Len(s.db[table]) + 1)) ]

Deactivate(s, table, id) ==
    [ s EXCEPT !.db[table][id].active = FALSE,
               !.log = Append(@, LogEntry(s, "deactivate", table, id)) ]

\* The active rows equal to row.
Matching(session, table, row) ==
    { i \in DOMAIN session[table] : session[table][i] = row }

\* Get-or-create: the active row with these attributes, or a new one.
Ensure(s, table, row) ==
    IF Matching(s.db, table, row) # {}
    THEN [s |-> s, id |-> CHOOSE i \in Matching(s.db, table, row) :
                             \A j \in Matching(s.db, table, row) : i <= j]
    ELSE [s |-> Insert(s, table, row), id |-> Len(s.db[table]) + 1]

\* app.operations.deactivate
deactivate_parcel_to_address(s, id) == Deactivate(s, "parcel_address", id)
deactivate_human_to_address(s, id) == Deactivate(s, "human_address", id)
deactivate_address(s, id) == Deactivate(s, "address", id)
deactivate_human_to_parcel(s, id) == Deactivate(s, "human_parcel", id)
deactivate_human(s, id) == Deactivate(s, "human", id)

\* app.operations.ensure
ensure_city_state_zip(s, city, state, zip_) ==
    Ensure(s, "city_state_zip",
           [city |-> city, state_abbr |-> state, zip_code |-> zip_, active |-> TRUE])
ensure_street(s, city_state_zip_id, street_name, is_pobox) ==
    Ensure(s, "street",
           [citystatezip_cszipid |-> city_state_zip_id, name |-> street_name,
            pobox |-> is_pobox, active |-> TRUE])
ensure_address(s, street_id, number, attn, secondary) ==
    Ensure(s, "address",
           [street_streetid |-> street_id, bldgno |-> number, attention |-> attn,
            secondary |-> secondary, active |-> TRUE])
ensure_human(s, name, is_multi_entity) ==
    Ensure(s, "human", [name |-> name, multihuman |-> is_multi_entity, active |-> TRUE])

\* app.operations.link
link_parcel_to_address(s, parcelkey, address_id, role) ==
    Insert(s, "parcel_address",
           [parcel_parcelkey |-> parcelkey, mailingaddress_addressid |-> address_id,
            linkedobjectrole_lorid |-> role, active |-> TRUE])
link_human_to_parcel(s, parcelkey, humanid, role) ==
    Insert(s, "human_parcel",
           [human_humanid |-> humanid, parcel_parcelkey |-> parcelkey,
            linkedobjectrole_lorid |-> role, active |-> TRUE])
link_human_to_address(s, human_id, address_id, role) ==
    Insert(s, "human_address",
           [humanmailing_humanid |-> human_id, humanmailing_addressid |-> address_id,
            linkedobjectrole_lorid |-> role, active |-> TRUE])

(***************************************************************************)
(* app/lib.py: _cog_tables_to_owner_and_mailing and _sync_owner_and_mailing*)
(* The statements of _sync_owner_and_mailing follow one another as         *)
(* operators, each taking what the statements before it computed.          *)
(***************************************************************************)
\* schemas.CogTables.has_address_tables
has_address_tables(t) ==
    t.address # NoId /\ t.street # NoId /\ t.city_state_zip # NoId

\* The Mailing of an address row and the rows it belongs to.
MailingOfRows(session, address_id, street_id, city_state_zip_id) ==
    [ delivery |-> [ is_pobox |-> session.street[street_id].pobox,
                     attn |-> session.address[address_id].attention,
                     number |-> session.address[address_id].bldgno,
                     street |-> session.street[street_id].name,
                     secondary |-> session.address[address_id].secondary ],
      last |-> [ city |-> session.city_state_zip[city_state_zip_id].city,
                 state |-> session.city_state_zip[city_state_zip_id].state_abbr,
                 zip |-> session.city_state_zip[city_state_zip_id].zip_code ] ]

OwnerOfRow(session, human_id) ==
    [ name |-> session.human[human_id].name,
      is_multi_entity |-> session.human[human_id].multihuman ]

\* t is an optional CogTables.
_cog_tables_to_owner_and_mailing(session, t) ==
    [ owner |-> IF t = None \/ t[1].human = NoId THEN None
                ELSE Some(OwnerOfRow(session, t[1].human)),
      mailing |-> IF t = None \/ ~has_address_tables(t[1]) THEN None
                  ELSE Some(MailingOfRows(session, t[1].address, t[1].street,
                                          t[1].city_state_zip)) ]

\* "x and x.f and x.f.id" of an optional CogTables.
IdOrNone(cog_tables, field) == IF cog_tables = None THEN NoId ELSE cog_tables[1][field]

\* cog_tables.parcel.parcelkey raises AttributeError on a None cog_tables.
HasParcel(cog_tables) == cog_tables # None /\ cog_tables[1].parcel # NoId
ParcelKeyOf(cog_tables) == ParcelTable[cog_tables[1].parcel].parcelkey

\* One "if cog_tables.<field>: deactivate.<what>(db, id=...)".
DeactivateIfPresent(s, table, id) == IF id # NoId THEN Deactivate(s, table, id) ELSE s

\* Lines 59-67 without deactivate.parcel_to_address.
RetireAddressSide_KeepsLink(s, cog_tables) ==
    IF cog_tables = None THEN s
    ELSE DeactivateIfPresent(
             DeactivateIfPresent(s, "human_address", cog_tables[1].human_address),
             "address", cog_tables[1].address)

\* Lines 59-67 without deactivate.address.
RetireAddressSide_KeepsAddress(s, cog_tables) ==
    IF cog_tables = None THEN s
    ELSE DeactivateIfPresent(
             DeactivateIfPresent(s, "parcel_address", cog_tables[1].parcel_address),
             "human_address", cog_tables[1].human_address)

\* Lines 59-67 retiring the street of the chain too.
RetireAddressSide_RetiresStreet(s, cog_tables) ==
    IF cog_tables = None THEN s
    ELSE DeactivateIfPresent(
             DeactivateIfPresent(
                 DeactivateIfPresent(
                     DeactivateIfPresent(s, "parcel_address", cog_tables[1].parcel_address),
                     "human_address", cog_tables[1].human_address),
                 "address", cog_tables[1].address),
             "street", cog_tables[1].street)

\* Lines 59-67: the retirements of the address side.
RetireAddressSide(s, cog_tables) ==
    IF cog_tables = None THEN s
    ELSE DeactivateIfPresent(
             DeactivateIfPresent(
                 DeactivateIfPresent(s, "parcel_address", cog_tables[1].parcel_address),
                 "human_address", cog_tables[1].human_address),
             "address", cog_tables[1].address)

\* Lines 95-104: the retirements of the human side.
RetireHumanSide(s, cog_tables) ==
    IF cog_tables = None THEN s
    ELSE DeactivateIfPresent(
             DeactivateIfPresent(
                 DeactivateIfPresent(s, "human_parcel", cog_tables[1].human_parcel),
                 "human_address", cog_tables[1].human_address),
             "human", cog_tables[1].human)

\* Line 57 comparing the scraped mailing with the cog owner.
SameAddress_WrongField(session, county_data, cog_tables) ==
    county_data.mailing = _cog_tables_to_owner_and_mailing(session, cog_tables).owner

\* Line 57.
SameAddress(session, county_data, cog_tables) ==
    county_data.mailing = _cog_tables_to_owner_and_mailing(session, cog_tables).mailing

\* Line 93.
SameHuman(session, county_data, cog_tables) ==
    county_data.owner = _cog_tables_to_owner_and_mailing(session, cog_tables).owner

AddressFailed(s) ==
    [ s |-> s, err |-> "AttributeError", same |-> FALSE, address_id |-> NoId,
      returned_address |-> None ]

\* Lines 75-89.
AddressLinked(s, address_id, street_id, city_state_zip_id) ==
    [ s |-> s, err |-> "none", same |-> FALSE, address_id |-> address_id,
      returned_address |-> Some(MailingOfRows(s.db, address_id, street_id, city_state_zip_id)) ]

\* Line 74.
LinkAddress(address_table, street_id, city_state_zip_id, cog_tables, address_role) ==
    IF ~HasParcel(cog_tables) THEN AddressFailed(address_table.s)
    ELSE AddressLinked(
             link_parcel_to_address(address_table.s, ParcelKeyOf(cog_tables),
                                    address_table.id, address_role),
             address_table.id, street_id, city_state_zip_id)

\* Line 72.
InsertAddress(street_table, city_state_zip_id, mailing, cog_tables, address_role) ==
    LinkAddress(ensure_address(street_table.s, street_table.id, mailing.delivery.number,
                               mailing.delivery.attn, mailing.delivery.secondary),
                street_table.id, city_state_zip_id, cog_tables, address_role)

\* Line 71.
InsertStreet(city_state_zip_table, mailing, cog_tables, address_role) ==
    InsertAddress(ensure_street(city_state_zip_table.s, city_state_zip_table.id,
                                mailing.delivery.street, mailing.delivery.is_pobox),
                  city_state_zip_table.id, mailing, cog_tables, address_role)

\* Line 70: county_data.mailing.last of a None mailing raises AttributeError.
InsertAddressSide(s, county_data, cog_tables, address_role) ==
    IF county_data.mailing = None THEN AddressFailed(s)
    ELSE InsertStreet(ensure_city_state_zip(s, county_data.mailing[1].last.city,
                                            county_data.mailing[1].last.state,
                                            county_data.mailing[1].last.zip),
                      county_data.mailing[1], cog_tables, address_role)

\* Lines 55-89 with the retirements of lines 59-67 after the link of line 74.
AddressSide_CreateFirst(s, county_data, cog_tables, address_role) ==
    IF SameAddress(s.db, county_data, cog_tables)
    THEN [ s |-> s, err |-> "none", same |-> TRUE,
           address_id |-> IdOrNone(cog_tables, "address"),
           returned_address |-> county_data.mailing ]
    ELSE [ InsertAddressSide(s, county_data, cog_tables, address_role)
             EXCEPT !.s = RetireAddressSide(@, cog_tables) ]

\* Lines 55-89.
AddressSide(s, county_data, cog_tables, address_role) ==
    IF SameAddress(s.db, county_data, cog_tables)
    THEN [ s |-> s, err |-> "none", same |-> TRUE,
           address_id |-> IdOrNone(cog_tables, "address"),
           returned_address |-> county_data.mailing ]
    ELSE InsertAddressSide(RetireAddressSide(s, cog_tables), county_data, cog_tables,
                           address_role)

HumanFailed(s) ==
    [ s |-> s, err |-> "AttributeError", same |-> FALSE, human_id |-> NoId,
      returned_human |-> None ]

\* Lines 107-111 returning the name alone.
HumanLinked_NameOnly(s, human_id) ==
    [ s |-> s, err |-> "none", same |-> FALSE, human_id |-> human_id,
      returned_human |-> Some([name |-> s.db.human[human_id].name, is_multi_entity |-> FALSE]) ]

\* Lines 107-111.
HumanLinked(s, human_id) ==
    [ s |-> s, err |-> "none", same |-> FALSE, human_id |-> human_id,
      returned_human |-> Some(OwnerOfRow(s.db, human_id)) ]

\* Line 106.
LinkHuman(human_table, cog_tables, addressee_role) ==
    IF ~HasParcel(cog_tables) THEN HumanFailed(human_table.s)
    ELSE HumanLinked(
             link_human_to_parcel(human_table.s, ParcelKeyOf(cog_tables), human_table.id,
                                  addressee_role),
             human_table.id)

\* Line 105.
InsertHumanSide(s, county_data, cog_tables, addressee_role) ==
    IF county_data.owner = None THEN HumanFailed(s)
    ELSE LinkHuman(ensure_human(s, county_data.owner[1].name,
                                county_data.owner[1].is_multi_entity),
                   cog_tables, addressee_role)

\* Lines 91-111.
HumanSide(s, county_data, cog_tables, addressee_role) ==
    IF SameHuman(s.db, county_data, cog_tables)
    THEN [ s |-> s, err |-> "none", same |-> TRUE,
           human_id |-> IdOrNone(cog_tables, "human"),
           returned_human |-> county_data.owner ]
    ELSE InsertHumanSide(RetireHumanSide(s, cog_tables), county_data, cog_tables,
                         addressee_role)

NoOwnerAndMailing == [owner |-> None, mailing |-> None]

\* Lines 113-114 left out.
CrossLink_Skipped(s, same_human, same_address, human_id, address_id, addressee_role) == s

\* Lines 113-114.
CrossLink(s, same_human, same_address, human_id, address_id, addressee_role) ==
    IF (~same_human) \/ (~same_address)
    THEN link_human_to_address(s, human_id, address_id, addressee_role)
    ELSE s

\* Lines 113-119, given both sides.
AfterHumanSide(a, h, addressee_role) ==
    IF h.err # "none"
    THEN [ s |-> h.s, err |-> h.err, ret |-> NoOwnerAndMailing, same_address |-> a.same,
           same_human |-> h.same ]
    ELSE [ s |-> CrossLink(h.s, h.same, a.same, h.human_id, a.address_id, addressee_role),
           err |-> "none",
           ret |-> [owner |-> h.returned_human, mailing |-> a.returned_address],
           same_address |-> a.same, same_human |-> h.same ]

\* Lines 91-119, given the address side.
AfterAddressSide(a, county_data, cog_tables, addressee_role) ==
    IF a.err # "none"
    THEN [ s |-> a.s, err |-> a.err, ret |-> NoOwnerAndMailing, same_address |-> a.same,
           same_human |-> FALSE ]
    ELSE AfterHumanSide(a, HumanSide(a.s, county_data, cog_tables, addressee_role),
                        addressee_role)

_sync_owner_and_mailing(s, county_data, cog_tables, address_and_human_roles) ==
    AfterAddressSide(
        AddressSide([s EXCEPT !.ctx = address_and_human_roles[1]], county_data, cog_tables,
                    address_and_human_roles[1]),
        county_data, cog_tables, address_and_human_roles[2])

(***************************************************************************)
(* app/lib.py: sync_parcel_data.  county is what get_parcel_data_from_county*)
(* did (it runs first, and on its exception nothing is read or written).   *)
(* The result keeps, beside the session's tables and the returned value,   *)
(* what the call read (cog) and how each context's reconciliation went.    *)
(***************************************************************************)
NoReconcile ==
    [ ran |-> FALSE, err |-> "none", same_address |-> FALSE, same_human |-> FALSE,
      ret |-> NoOwnerAndMailing ]
NoContexts == [general |-> NoReconcile, mortgage |-> NoReconcile]
NoCog == [general |-> None, mortgage |-> None]

Reconciled(r) ==
    [ ran |-> TRUE, err |-> r.err, same_address |-> r.same_address,
      same_human |-> r.same_human, ret |-> r.ret ]

\* An exception before any reconciliation.
SyncRaised(session, err) ==
    [ db |-> session, err |-> err, ret |-> None, writes |-> <<>>, cog |-> NoCog,
      contexts |-> NoContexts ]

\* Lines 34-37.
SyncReturn(_cog_tables, g, m) ==
    [ db |-> m.s.db, err |-> m.err,
      ret |-> IF m.err = "none" THEN Some([general |-> g.ret, mortgage |-> m.ret]) ELSE None,
      writes |-> m.s.log,
      cog |-> [general |-> _cog_tables.general, mortgage |-> _cog_tables.mortgage],
      contexts |-> [general |-> Reconciled(g), mortgage |-> Reconciled(m)] ]

\* Line 33, for the mortgage context.
SyncMortgage(_county_data, _cog_tables, g) ==
    IF g.err # "none"
    THEN [ db |-> g.s.db, err |-> g.err, ret |-> None, writes |-> g.s.log,
           cog |-> [general |-> _cog_tables.general, mortgage |-> _cog_tables.mortgage],
           contexts |-> [general |-> Reconciled(g), mortgage |-> NoReconcile] ]
    ELSE SyncReturn(_cog_tables, g,
                    _sync_owner_and_mailing(g.s, _county_data.mortgage, _cog_tables.mortgage,
                                            mortgage_roles))

\* Line 33, for the general context.
SyncGeneral(session, _county_data, _cog_tables) ==
    IF _cog_tables.err # "none" THEN SyncRaised(session, _cog_tables.err)
    ELSE SyncMortgage(_county_data, _cog_tables,
                      _sync_owner_and_mailing([db |-> session, log |-> <<>>, ctx |-> NoId],
                                              _county_data.general, _cog_tables.general,
                                              general_roles))

sync_parcel_data(session, parcel_id, county) ==
    IF county.err # "none" THEN SyncRaised(session, county.err)
    ELSE SyncGeneral(session, county.data[1], get_cog_tables(session, parcel_id))

\* What a reader of the parcel's active chains gets: get_cog_tables and its
\* projection to the county's shape.
Projected(session, t) ==
    [ err |-> t.err,
      ret |-> IF t.err # "none" THEN None
              ELSE Some([ general |-> _cog_tables_to_owner_and_mailing(session, t.general),
                          mortgage |-> _cog_tables_to_owner_and_mailing(session, t.mortgage) ]) ]

ReadBack(session, parcel_id) == Projected(session, get_cog_tables(session, parcel_id))

\* The (parcel key, address-role) pairs with an active parcel-address link.
LinkedPairs(session) ==
    { <<session.parcel_address[i].parcel_parcelkey,
        session.parcel_address[i].linkedobjectrole_lorid>> :
        i \in { j \in DOMAIN session.parcel_address : session.parcel_address[j].active } }

(***************************************************************************)
(* app/lib.py: the normalizers of the scraped fragments.  A string is the  *)
(* sequence of its characters; a fragment of the page is a Tag or a        *)
(* NavigableString with its text.                                          *)
(***************************************************************************)
MaxFrags == 4

Whitespace == {" ", "\n"}

T_A == <<"A">>
T_padded == <<" ", "A", " ">>
T_gap == <<"A", " ", " ", "B">>
T_example == <<" ", " ", "A", " ", " ", " ", "B", " ">>
T_newline == <<"A", "\n", "B">>
T_attn == <<"A", "T", "T", "N", ":", " ", "B">>
T_attention == <<"A", "T", "T", "E", "N", "T", "I", "O", "N", " ", "B">>
Texts == {T_A, T_padded, T_gap, T_example, T_newline, T_attn, T_attention}

NavigableString(text) == [kind |-> "NavigableString", text |-> text]
Fragments == {[kind |-> "Tag", text |-> <<>>]} \cup { NavigableString(x) : x \in Texts }
FragmentLists == UNION { [1..n -> Fragments] : n \in 0..MaxFrags }

\* str.strip()
RECURSIVE lstrip(_)
lstrip(text) ==
    IF text # <<>> /\ Head(text) \in Whitespace THEN lstrip(Tail(text)) ELSE text

RECURSIVE rstrip(_)
rstrip(text) ==
    IF text # <<>> /\ text[Len(text)] \in Whitespace
    THEN rstrip(SubSeq(text, 1, Len(text) - 1)) ELSE text

strip(text) == rstrip(lstrip(text))

\* sep.join(list)
RECURSIVE join(_, _)
join(sep, list) ==
    IF list = <<>> THEN <<>>
    ELSE IF Len(list) = 1 THEN list[1]
    ELSE list[1] \o sep \o join(sep, Tail(list))

\* Lines 225-226: the text of the NavigableString fragments, in order.
RECURSIVE _clean_tags(_)
_clean_tags(content) ==
    IF content = <<>> THEN <<>>
    ELSE (IF Head(content).kind = "NavigableString" THEN <<Head(content).text>> ELSE <<>>)
         \o _clean_tags(Tail(content))

\* Lines 229-230: re.sub(r"\s+", " ", text).
RECURSIVE _clean_whitespace(_)
_clean_whitespace(text) ==
    IF text = <<>> THEN <<>>
    ELSE IF Head(text) \in Whitespace THEN <<" ">> \o _clean_whitespace(lstrip(Tail(text)))
    ELSE <<Head(text)>> \o _clean_whitespace(Tail(text))

\* Lines 178-192 with the comparison of the dirty and the clean name left out.
owner_from_raw_CountOnly(data) ==
    [ name |-> _clean_whitespace(join(<<" ", "&", " ">>,
                   [i \in DOMAIN _clean_tags(data) |-> strip(_clean_tags(data)[i])])),
      is_multi_entity |-> Len(_clean_tags(data)) > 1 ]

\* Lines 178-192.
owner_from_raw(data) ==
    LET owner_list == _clean_tags(data)
        dirty_owner == join(<<" ", "&", " ">>,
                            [i \in DOMAIN owner_list |-> strip(owner_list[i])])
        clean_owner == _clean_whitespace(dirty_owner)
    IN [ name |-> clean_owner,
         is_multi_entity |-> Len(owner_list) > 1 \/ dirty_owner # clean_owner ]

\* lib.parse: the delivery line and the last line of an address, kept as the
\* text they were parsed from; a parsed delivery line has no attention text.
delivery_address_line(line) == [attn |-> None, line |-> line]
mortgage_last_line(city_state, zip) == [city_state_line |-> city_state, zip_line |-> zip]
general_city_state_zip(line) == [line |-> line]

\* Lines 195-205 returning None for every count but 3.
mailing_from_raw_tax_Lenient(data) ==
    IF Len(_clean_tags(data)) = 3
    THEN [ err |-> "none",
           ret |-> Some([ delivery |-> delivery_address_line(_clean_tags(data)[1]),
                          last |-> mortgage_last_line(_clean_tags(data)[2],
                                                      _clean_tags(data)[3]) ]) ]
    ELSE [err |-> "none", ret |-> None]

\* Lines 195-205.
mailing_from_raw_tax(data) ==
    LET address_list == _clean_tags(data)
    IN IF Len(address_list) = 3
       THEN [ err |-> "none",
              ret |-> Some([ delivery |-> delivery_address_line(address_list[1]),
                             last |-> mortgage_last_line(address_list[2], address_list[3]) ]) ]
       ELSE IF address_list = <<>> THEN [err |-> "none", ret |-> None]
       ELSE [err |-> "NotImplementedError", ret |-> None]

\* The number of leading whitespace characters of text.
RECURSIVE LeadingWhitespace(_)
LeadingWhitespace(text) ==
    IF text # <<>> /\ Head(text) \in Whitespace THEN 1 + LeadingWhitespace(Tail(text)) ELSE 0

IsPrefix(word, text) == Len(word) <= Len(text) /\ SubSeq(text, 1, Len(word)) = word

\* The length of the match of :?\s+ at the start of text, 0 when there is none.
ColonAndSpaces(text) ==
    IF text # <<>> /\ Head(text) = ":"
    THEN (IF LeadingWhitespace(Tail(text)) > 0 THEN 1 + LeadingWhitespace(Tail(text)) ELSE 0)
    ELSE LeadingWhitespace(text)

\* The length of the match of ATT(N|ENTION):?\s+ at the start of text, 0 when
\* there is none.
AttnMatch(text) ==
    LET word == IF IsPrefix(<<"A", "T", "T", "N">>, text) THEN 4
                ELSE IF IsPrefix(<<"A", "T", "T", "E", "N", "T", "I", "O", "N">>, text) THEN 9
                ELSE 0
    IN IF word = 0 \/ ColonAndSpaces(SubSeq(text, word + 1, Len(text))) = 0 THEN 0
       ELSE word + ColonAndSpaces(SubSeq(text, word + 1, Len(text)))

\* re.sub(r"ATT(N|ENTION):?\s+", repl, string): string with every match of
\* the pattern replaced by repl.
RECURSIVE re_sub_ATTN(_, _)
re_sub_ATTN(repl, string) ==
    IF string = <<>> THEN <<>>
    ELSE IF AttnMatch(string) > 0
    THEN repl \o re_sub_ATTN(repl, SubSeq(string, AttnMatch(string) + 1, Len(string)))
    ELSE <<Head(string)>> \o re_sub_ATTN(repl, Tail(string))

\* Lines 208-222.  Line 216 passes the first fragment as repl and "" as the
\* string.
mailing_from_raw_general(data) ==
    LET address_list == _clean_tags(data)
    IN IF Len(address_list) = 2
       THEN [ err |-> "none",
              ret |-> Some([ delivery |-> delivery_address_line(address_list[1]),
                             last |-> general_city_state_zip(address_list[2]) ]) ]
       ELSE IF Len(address_list) = 3
       THEN [ err |-> "none",
              ret |-> Some([ delivery |->
                               [ delivery_address_line(address_list[2])
                                   EXCEPT !.attn = Some(re_sub_ATTN(address_list[1], <<>>)) ],
                             last |-> general_city_state_zip(address_list[3]) ]) ]
       ELSE IF address_list = <<>> THEN [err |-> "none", ret |-> None]
       ELSE [err |-> "RuntimeError", ret |-> None]

\* No normalizer has been called.
NoNorm == [fn |-> "", data |-> <<>>, err |-> "none", ret |-> None]

(***************************************************************************)
(* The state: the tables (db), the record of the latest sync_parcel_data   *)
(* call (last), the number of calls made (calls), the running              *)
(* /municipality/sync request (muni), and per parcel the value its latest  *)
(* sync returned if the reader gave that value back when it ended (stable).*)
(***************************************************************************)
NoCall ==
    [ parcel |-> "", county |-> [err |-> "none", data |-> None], err |-> "none",
      ret |-> None, writes |-> <<>>, cog |-> NoCog, contexts |-> NoContexts,
      repeat |-> FALSE, prev_err |-> "none", prev_ret |-> None, had_link |-> {},
      n |-> 0 ]

IdleMuni ==
    [ state |-> "idle", municode |-> 0, parcels |-> <<>>, idx |-> 0, total |-> 0,
      skipped |-> <<>>, outcomes |-> <<>>, reconciled |-> <<>>, err |-> "none" ]

Init ==
    /\ db = EmptyDb
    /\ last = NoCall
    /\ calls = 0
    /\ muni = IdleMuni
    /\ stable = [p \in ParcelIds |-> None]
    /\ norm = NoNorm

\* One call of lib.sync_parcel_data, by either handler.
Call(parcel_id, county, r) ==
    /\ db' = r.db
    /\ calls' = calls + 1
    /\ last' = [ parcel |-> parcel_id, county |-> county, err |-> r.err, ret |-> r.ret,
                 writes |-> r.writes, cog |-> r.cog, contexts |-> r.contexts,
                 repeat |-> /\ last.n > 0
                            /\ last.parcel = parcel_id
                            /\ last.county = county
                            /\ county.err = "none",
                 prev_err |-> last.err, prev_ret |-> last.ret,
                 had_link |-> LinkedPairs(db), n |-> calls + 1 ]
    /\ stable' = IF county.err # "none" THEN stable
                 ELSE [ stable EXCEPT ![parcel_id] =
                          IF r.err = "none"
                                /\ ReadBack(r.db, parcel_id) = [err |-> "none", ret |-> r.ret]
                          THEN r.ret ELSE None ]

\* app.py: GET /parcel/sync.
sync(id, county) ==
    /\ calls + (IF muni.state = "running" THEN Len(muni.parcels) - muni.idx ELSE 0) < MaxCalls
    /\ Call(id, county, sync_parcel_data(db, id, county))
    /\ UNCHANGED <<muni, norm>>

\* app.py: GET /municipality/sync, up to its loop.
sync_municipality_begin(municode) ==
    LET parcels == parcels_by_municode(db, municode)
    IN /\ muni.state # "running"
       /\ calls + Len(parcels) <= MaxCalls
       /\ muni' = [ state |-> IF parcels = <<>> THEN "returned" ELSE "running",
                    municode |-> municode, parcels |-> parcels, idx |-> 0, total |-> 0,
                    skipped |-> <<>>, outcomes |-> <<>>, reconciled |-> <<>>,
                    err |-> "none" ]
       /\ UNCHANGED <<db, last, calls, stable, norm>>

\* The iteration without its except clause: HtmlParsingError leaves the handler.
Iteration_NoCatch(m, parcelkey, call) ==
    [ m EXCEPT
        !.idx = @ + 1,
        !.total = @ + 1,
        !.outcomes = Append(@, call.err),
        !.reconciled = Append(@, /\ call.err = "none"
                                 /\ call.contexts.general.ran
                                 /\ call.contexts.mortgage.ran),
        !.err = call.err,
        !.state = IF call.err # "none" THEN "raised"
                  ELSE IF m.idx + 1 = Len(m.parcels) THEN "returned"
                  ELSE "running" ]

\* What one iteration of the loop does to the request (lines 37-43): try the
\* parcel's sync, except HtmlParsingError append its key to skipped, finally
\* count it.  Another exception leaves the handler; after the last parcel
\* the handler returns sync_data.  outcomes and reconciled record, per
\* parcel, how its sync ended and whether both contexts were reconciled.
Iteration(m, parcelkey, call) ==
    [ m EXCEPT
        !.idx = @ + 1,
        !.total = @ + 1,
        !.skipped = IF call.err = "HtmlParsingError" THEN Append(@, parcelkey) ELSE @,
        !.outcomes = Append(@, call.err),
        !.reconciled = Append(@, /\ call.err = "none"
                                 /\ call.contexts.general.ran
                                 /\ call.contexts.mortgage.ran),
        !.err = IF call.err = "HtmlParsingError" THEN "none" ELSE call.err,
        !.state = IF call.err \notin {"none", "HtmlParsingError"} THEN "raised"
                  ELSE IF m.idx + 1 = Len(m.parcels) THEN "returned"
                  ELSE "running" ]

sync_municipality_step(county) ==
    /\ muni.state = "running"
    /\ Call(ParcelTable[muni.parcels[muni.idx + 1]].parcelidcnty, county,
            sync_parcel_data(db, ParcelTable[muni.parcels[muni.idx + 1]].parcelidcnty, county))
    /\ muni' = Iteration(muni, ParcelTable[muni.parcels[muni.idx + 1]].parcelkey, last')
    /\ UNCHANGED norm

Next ==
    \/ \E id \in ParcelIds : \E county \in OutcomesFor(id) : sync(id, county)
    \/ \E municode \in Municodes : sync_municipality_begin(municode)
    \/ \E county \in ScrapeOutcomes : sync_municipality_step(county)

Spec == Init /\ [][Next]_vars

(***************************************************************************)
(* The normalizers on their own: the fragments scraped from a page are     *)
(* given at the start, and a step calls one of the normalizers on them and *)
(* records what it gave.                                                   *)
(***************************************************************************)
NormInit ==
    /\ db = EmptyDb
    /\ last = NoCall
    /\ calls = 0
    /\ muni = IdleMuni
    /\ stable = [p \in ParcelIds |-> None]
    /\ norm \in { [NoNorm EXCEPT !.data = data] : data \in FragmentLists }

Normalized(fn, r) ==
    /\ norm.fn = ""
    /\ norm' = [norm EXCEPT !.fn = fn, !.err = r.err, !.ret = r.ret]
    /\ UNCHANGED <<db, last, calls, muni, stable>>

normalize_owner ==
    Normalized("owner_from_raw", [err |-> "none", ret |-> Some(owner_from_raw(norm.data))])

normalize_mailing_tax == Normalized("mailing_from_raw_tax", mailing_from_raw_tax(norm.data))

normalize_mailing_general ==
    Normalized("mailing_from_raw_general", mailing_from_raw_general(norm.data))

NormNext ==
    \/ normalize_owner
    \/ normalize_mailing_tax
    \/ normalize_mailing_general

NormSpec == NormInit /\ [][NormNext]_vars

(***************************************************************************)
(* The properties.  They speak of the latest sync_parcel_data call through *)
(* last: what it was given (county), what it read (cog), what it wrote     *)
(* (writes) and how each context's reconciliation ended (contexts).        *)
(***************************************************************************)
ContextNames == {"general", "mortgage"}
RolesOf(c) == IF c = "general" THEN general_roles ELSE mortgage_roles

\* The scraped OwnerAndMailing of context c, and the one projected from the
\* chain the call read for it.
Scraped(c) == last.county.data[1][c]
Current(c) == _cog_tables_to_owner_and_mailing(db, last.cog[c])
\* The reconciliation of context c took place in the latest call.
Ran(c) == last.county.err = "none" /\ last.contexts[c].ran

\* The writes of context c's reconciliation, as positions of the log.
Writes(c) == { i \in DOMAIN last.writes : last.writes[i].ctx = RolesOf(c)[1] }
WritesTo(c, op, table) ==
    { i \in Writes(c) : last.writes[i].op = op /\ last.writes[i].table = table }
ActiveParcel(id) ==
    \E i \in DOMAIN ParcelTable : ParcelTable[i].parcelidcnty = id /\ ParcelTable[i].active
KeyOf(id) ==
    ParcelTable[CHOOSE i \in DOMAIN ParcelTable : ParcelTable[i].parcelidcnty = id].parcelkey

\* C1 (idempotence): when sync_parcel_data is run twice in a row for the same
\* parcel with the same scraped data and the first run returned, the second
\* run returns too, writes nothing, and returns a value equal to the first.
C1_Idempotent ==
    (last.repeat /\ last.prev_err = "none")
        => (last.err = "none" /\ last.writes = <<>> /\ last.ret = last.prev_ret)

\* C2 (at most one active link): in every state between calls, each parcel
\* has at most one active parcel-address link per address-role.
C2_AtMostOneActiveLink ==
    \A i, j \in DOMAIN db.parcel_address :
        ( /\ db.parcel_address[i].active
          /\ db.parcel_address[j].active
          /\ db.parcel_address[i].parcel_parcelkey = db.parcel_address[j].parcel_parcelkey
          /\ db.parcel_address[i].linkedobjectrole_lorid
                = db.parcel_address[j].linkedobjectrole_lorid )
            => i = j

\* C2's case: a link of a (parcel, role) has been retired and another one of
\* the same (parcel, role) is active.
C2_LinkReplaced ==
    \E i, j \in DOMAIN db.parcel_address :
        /\ ~db.parcel_address[i].active
        /\ db.parcel_address[j].active
        /\ db.parcel_address[i].parcel_parcelkey = db.parcel_address[j].parcel_parcelkey
        /\ db.parcel_address[i].linkedobjectrole_lorid
              = db.parcel_address[j].linkedobjectrole_lorid

\* C3 (value equality suppresses writes): a reconciliation whose scraped
\* mailing equals the mailing projected from the chain it was given (both
\* None included) neither inserts nor deactivates a row of address, street,
\* city_state_zip or parcel_address, whatever the owner comparison gives.
AddressTables == {"address", "street", "city_state_zip", "parcel_address"}
C3_EqualMailingWritesNoAddress ==
    \A c \in ContextNames :
        (Ran(c) /\ Scraped(c).mailing = Current(c).mailing)
            => \A i \in Writes(c) : last.writes[i].table \notin AddressTables

\* C3's case: the mailing is present and equal, the owner differs, and the
\* reconciliation wrote the human side.
C3_EqualMailingOwnerChanged ==
    \E c \in ContextNames :
        /\ Ran(c)
        /\ Scraped(c).mailing # None
        /\ Scraped(c).mailing = Current(c).mailing
        /\ Current(c).owner # None
        /\ Scraped(c).owner # Current(c).owner
        /\ WritesTo(c, "insert", "human_parcel") # {}

\* The scraped mailing of context c differs from the chain's in the building
\* number and in nothing else.
OnlyNumberDiffers(c) ==
    /\ Ran(c)
    /\ Scraped(c).mailing # None
    /\ Current(c).mailing # None
    /\ Scraped(c).mailing # Current(c).mailing
    /\ [Scraped(c).mailing[1] EXCEPT !.delivery.number = Current(c).mailing[1].delivery.number]
          = Current(c).mailing[1]

\* C4 (a changed number replaces the chain): then the reconciliation ends
\* normally, the chain's parcel-address link and address are retired, exactly
\* one parcel-address link is inserted, active, for the parcel under the
\* address-role, to an address with the new number on the chain's street,
\* and no street or city_state_zip row is inserted.
C4_NumberChangeReplacesChain ==
    \A c \in ContextNames :
        OnlyNumberDiffers(c) =>
            /\ last.contexts[c].err = "none"
            /\ ~db.parcel_address[last.cog[c][1].parcel_address].active
            /\ ~db.address[last.cog[c][1].address].active
            /\ Cardinality(WritesTo(c, "insert", "parcel_address")) = 1
            /\ \A i \in WritesTo(c, "insert", "parcel_address") :
                  LET row == db.parcel_address[last.writes[i].id]
                  IN /\ row.active
                     /\ row.parcel_parcelkey = KeyOf(last.parcel)
                     /\ row.linkedobjectrole_lorid = RolesOf(c)[1]
                     /\ row.mailingaddress_addressid # last.cog[c][1].address
                     /\ db.address[row.mailingaddress_addressid].bldgno
                           = Scraped(c).mailing[1].delivery.number
                     /\ db.address[row.mailingaddress_addressid].street_streetid
                           = last.cog[c][1].street
            /\ WritesTo(c, "insert", "street") = {}
            /\ WritesTo(c, "insert", "city_state_zip") = {}

\* C4's case: a reconciliation met a mailing that differs in the number only.
C4_NumberChanged == \E c \in ContextNames : OnlyNumberDiffers(c)

\* The keys of the parcels of the batch whose sync raised HtmlParsingError,
\* in the order of the iteration.
RECURSIVE SkippedKeys(_, _)
SkippedKeys(parcels, outcomes) ==
    IF outcomes = <<>> THEN <<>>
    ELSE (IF Head(outcomes) = "HtmlParsingError"
          THEN <<ParcelTable[Head(parcels)].parcelkey>> ELSE <<>>)
         \o SkippedKeys(Tail(parcels), Tail(outcomes))

\* C5 (skip and continue): HtmlParsingError of a parcel's sync never leaves
\* the /municipality/sync handler nor ends its loop; when the handler returns,
\* total is the number of parcels, skipped holds exactly the keys of the
\* parcels whose sync raised HtmlParsingError, in order, and every other
\* parcel's sync ran to its end with both contexts reconciled.
C5_SkipAndContinue ==
    /\ muni.state = "raised" => muni.err \notin {"none", "HtmlParsingError"}
    /\ \A i \in DOMAIN muni.outcomes :
          muni.outcomes[i] = "HtmlParsingError"
              => (i < Len(muni.parcels) => (muni.state = "running" \/ Len(muni.outcomes) > i))
    /\ muni.state = "returned" =>
          /\ muni.total = Len(muni.parcels)
          /\ Len(muni.outcomes) = Len(muni.parcels)
          /\ muni.skipped = SkippedKeys(muni.parcels, muni.outcomes)
          /\ \A i \in DOMAIN muni.outcomes :
                muni.outcomes[i] # "HtmlParsingError" => muni.reconciled[i]

\* C5's case: a batch of two parcels has returned; the first parcel's sync
\* raised HtmlParsingError and the second parcel was reconciled and linked.
C5_SkippedFirstSyncedSecond ==
    /\ muni.state = "returned"
    /\ Len(muni.parcels) = 2
    /\ muni.outcomes = <<"HtmlParsingError", "none">>
    /\ muni.skipped = <<ParcelTable[muni.parcels[1]].parcelkey>>
    /\ muni.total = 2
    /\ \E i \in DOMAIN db.parcel_address :
          /\ db.parcel_address[i].active
          /\ db.parcel_address[i].parcel_parcelkey = ParcelTable[muni.parcels[2]].parcelkey

\* The chain given to context c's reconciliation holds the parcel and nothing
\* else (no prior record), and the scraped mailing is present.
FirstTime(c) ==
    /\ Ran(c)
    /\ last.cog[c] # None
    /\ [last.cog[c][1] EXCEPT !.parcel = NoId] = EmptyCogTables
    /\ Scraped(c).owner # None
    /\ Scraped(c).mailing # None

\* C6 (first-time insertion): then the reconciliation deactivates nothing,
\* inserts exactly one parcel-address link, one human-parcel link and one
\* human-address link, which tie the parcel, an address row with the scraped
\* mailing and a human row with the scraped owner under the context's roles,
\* and returns the scraped values.
C6_FirstTimeInsertion ==
    \A c \in ContextNames :
        FirstTime(c) =>
            /\ last.contexts[c].err = "none"
            /\ last.contexts[c].ret = Scraped(c)
            /\ \A i \in Writes(c) : last.writes[i].op = "insert"
            /\ Cardinality(WritesTo(c, "insert", "parcel_address")) = 1
            /\ Cardinality(WritesTo(c, "insert", "human_parcel")) = 1
            /\ Cardinality(WritesTo(c, "insert", "human_address")) = 1
            /\ \A i \in WritesTo(c, "insert", "parcel_address"),
                  j \in WritesTo(c, "insert", "human_parcel"),
                  k \in WritesTo(c, "insert", "human_address") :
                  LET pa == db.parcel_address[last.writes[i].id]
                      hp == db.human_parcel[last.writes[j].id]
                      ha == db.human_address[last.writes[k].id]
                      a == db.address[pa.mailingaddress_addressid]
                  IN /\ pa.parcel_parcelkey = KeyOf(last.parcel)
                     /\ pa.linkedobjectrole_lorid = RolesOf(c)[1]
                     /\ Some(MailingOfRows(db, pa.mailingaddress_addressid, a.street_streetid,
                                           db.street[a.street_streetid].citystatezip_cszipid))
                           = Scraped(c).mailing
                     /\ hp.parcel_parcelkey = KeyOf(last.parcel)
                     /\ hp.linkedobjectrole_lorid = RolesOf(c)[2]
                     /\ Some(OwnerOfRow(db, hp.human_humanid)) = Scraped(c).owner
                     /\ ha.humanmailing_humanid = hp.human_humanid
                     /\ ha.humanmailing_addressid = pa.mailingaddress_addressid
                     /\ ha.linkedobjectrole_lorid = RolesOf(c)[2]

\* C6's case: a reconciliation was given a chain without a prior record.
C6_FirstTime == \E c \in ContextNames : FirstTime(c)

\* C7 (cross-parcel safety): a parcel whose latest sync returned, and whose
\* chains read back as the returned value when it returned, still reads back
\* as that value after any calls for other parcels.
C7_CrossParcelSafe ==
    \A id \in ParcelIds :
        stable[id] # None => ReadBack(db, id) = [err |-> "none", ret |-> stable[id]]

\* C8 (the reader fails on a missing parcel): for a parcel id without an
\* active Parcel row get_cog_tables raises NoResultFound and returns nothing,
\* and a sync of such a parcel ends with that exception and writes nothing.
C8_MissingParcelRaises ==
    /\ \A id \in ParcelIds :
          ~ActiveParcel(id) => get_cog_tables(db, id) = NoTables("NoResultFound")
    /\ (last.n > 0 /\ ~ActiveParcel(last.parcel) /\ last.county.err = "none")
          => (last.err = "NoResultFound" /\ last.ret = None /\ last.writes = <<>>)

\* C8's case: a parcel without a row, and a deactivated one, were synced.
C8_MissingParcelSynced ==
    /\ last.n > 0
    /\ ~ActiveParcel(last.parcel)
    /\ last.county.err = "none"
    /\ last.err = "NoResultFound"

\* C9 (the reader tolerates absent sub-chains): for a parcel with an active
\* Parcel row, get_cog_tables never raises NoResultFound, whatever part of
\* the chain is absent or retired.
C9_ReaderToleratesAbsent ==
    \A id \in ParcelIds :
        ActiveParcel(id) => get_cog_tables(db, id).err # "NoResultFound"

\* C10 (atomicity): a call that ends with an exception leaves every
\* (parcel, address-role) that had an active parcel-address link before the
\* call with an active link.
C10_FailureKeepsLinks ==
    last.err # "none" => last.had_link \subseteq LinkedPairs(db)

(***************************************************************************)
(* The properties of the normalizers.  They speak of the latest normalizer *)
(* call through norm.                                                      *)
(***************************************************************************)
\* The texts of the text fragments given to the call, and what joining their
\* trimmed texts with " & " gives.
TextsGiven == _clean_tags(norm.data)
Joined == join(<<" ", "&", " ">>, [i \in DOMAIN TextsGiven |-> strip(TextsGiven[i])])

\* text without its whitespace characters.
RECURSIVE Solid(_)
Solid(text) ==
    IF text = <<>> THEN <<>>
    ELSE (IF Head(text) \in Whitespace THEN <<>> ELSE <<Head(text)>>) \o Solid(Tail(text))

\* text holds no whitespace but single spaces and begins and ends as other does.
Collapsed(text, other) ==
    /\ Solid(text) = Solid(other)
    /\ \A i \in DOMAIN text :
          text[i] \in Whitespace => (text[i] = " " /\ (i < Len(text) => text[i + 1] \notin Whitespace))
    /\ (text # <<>> /\ text[1] = " ") <=> (other # <<>> /\ other[1] \in Whitespace)
    /\ (text # <<>> /\ text[Len(text)] = " ") <=> (other # <<>> /\ other[Len(other)] \in Whitespace)

\* C11 (owner normalization): owner_from_raw gives the name made of the
\* trimmed texts of the text fragments joined with " & " with every run of
\* whitespace collapsed to one space, and is_multi_entity true exactly when
\* more than one text fragment remains or the collapsing changed the joined
\* name; the one fragment "  A   B " gives "A B" and true.
C11_OwnerNormalized ==
    norm.fn = "owner_from_raw" =>
        /\ norm.err = "none"
        /\ Collapsed(norm.ret[1].name, Joined)
        /\ norm.ret[1].is_multi_entity <=> (Len(TextsGiven) > 1 \/ norm.ret[1].name # Joined)
        /\ norm.ret[1] = owner_from_raw(norm.data)
        /\ norm.data = <<NavigableString(T_example)>>
              => norm.ret[1] = [name |-> <<"A", " ", "B">>, is_multi_entity |-> TRUE]

\* C11's case: owner_from_raw was given one text fragment, beside a tag, whose
\* inner whitespace the collapsing changed.
C11_OneFragmentCollapsed ==
    /\ norm.fn = "owner_from_raw"
    /\ Len(norm.data) = 2
    /\ TextsGiven = <<T_example>>
    /\ norm.ret[1].name = <<"A", " ", "B">>
    /\ norm.ret[1].is_multi_entity

\* C12 (tax mailing shape): mailing_from_raw_tax returns the Mailing of the
\* delivery line, the city/state and the zip when exactly 3 text fragments
\* remain, returns None when none remains, and for every other count raises
\* (NotImplementedError) and returns nothing.
C12_TaxMailingShape ==
    norm.fn = "mailing_from_raw_tax" =>
        /\ Len(TextsGiven) = 3 =>
              /\ norm.err = "none"
              /\ norm.ret = Some([ delivery |-> delivery_address_line(TextsGiven[1]),
                                   last |-> mortgage_last_line(TextsGiven[2], TextsGiven[3]) ])
        /\ Len(TextsGiven) = 0 => (norm.err = "none" /\ norm.ret = None)
        /\ Len(TextsGiven) \notin {0, 3} => (norm.err = "NotImplementedError" /\ norm.ret = None)

\* C12's case: mailing_from_raw_tax was given 2 text fragments and raised.
C12_TwoFragmentsRaise ==
    /\ norm.fn = "mailing_from_raw_tax"
    /\ Len(TextsGiven) = 2
    /\ Len(norm.data) > 2
    /\ norm.err = "NotImplementedError"

\* C13 (general mailing attention line): for 3 text fragments
\* mailing_from_raw_general returns a Mailing whose delivery.attn is the first
\* fragment with its ATTN/ATTENTION prefix stripped, not empty when text
\* follows the prefix, with the delivery line of the second fragment and the
\* city/state/zip of the third.
C13_AttentionStripped ==
    (norm.fn = "mailing_from_raw_general" /\ Len(TextsGiven) = 3) =>
        /\ norm.err = "none"
        /\ norm.ret[1].delivery.line = TextsGiven[2]
        /\ norm.ret[1].last = general_city_state_zip(TextsGiven[3])
        /\ norm.ret[1].delivery.attn = Some(re_sub_ATTN(<<>>, TextsGiven[1]))
        /\ TextsGiven[1] \in {T_attn, T_attention} => norm.ret[1].delivery.attn = Some(<<"B">>)

(***************************************************************************)
(* The states within a call.  The writes of the latest call are in         *)
(* last.writes in the order they were made, and a row is never activated   *)
(* again, so the tables after the first k writes can be told from db.      *)
(***************************************************************************)
WrittenAt(op, table, id) ==
    { i \in DOMAIN last.writes :
        last.writes[i].op = op /\ last.writes[i].table = table /\ last.writes[i].id = id }

\* Row id of table is there and active after the first k writes of the call.
ActiveAt(k, table, id) ==
    /\ \A i \in WrittenAt("insert", table, id) : i <= k
    /\ \A i \in WrittenAt("deactivate", table, id) : i > k
    /\ db[table][id].active \/ WrittenAt("deactivate", table, id) # {}

SameParcelAndRole(table, i, j) ==
    /\ db[table][i].parcel_parcelkey = db[table][j].parcel_parcelkey
    /\ db[table][i].linkedobjectrole_lorid = db[table][j].linkedobjectrole_lorid

\* C14 (retire before create): after every write of a call, also one that
\* ends with an exception, at most one parcel-address link is active per
\* (parcel, address-role): the old link is retired before the new one is
\* inserted.
C14_RetireBeforeCreate ==
    \A i, j \in DOMAIN db.parcel_address :
        (i < j /\ SameParcelAndRole("parcel_address", i, j)) =>
            \A k \in 0..Len(last.writes) :
                ~(ActiveAt(k, "parcel_address", i) /\ ActiveAt(k, "parcel_address", j))

\* C14's case: within the call a link was retired and then a link of the same
\* (parcel, role) was inserted.
C14_RetiredThenCreated ==
    \E k, n \in DOMAIN last.writes :
        /\ k < n
        /\ last.writes[k].op = "deactivate" /\ last.writes[k].table = "parcel_address"
        /\ last.writes[n].op = "insert" /\ last.writes[n].table = "parcel_address"
        /\ SameParcelAndRole("parcel_address", last.writes[k].id, last.writes[n].id)
        /\ ActiveAt(k - 1, "parcel_address", last.writes[k].id)
        /\ ActiveAt(n, "parcel_address", last.writes[n].id)

\* C15 (human side retirement): a reconciliation whose scraped owner differs
\* from the chain's retires the active human-parcel link before it inserts
\* the new one, so that between calls at most one human-parcel link is active
\* per (parcel, addressee-role).
C15_AtMostOneHumanParcelLink ==
    \A i, j \in DOMAIN db.human_parcel :
        ( /\ db.human_parcel[i].active
          /\ db.human_parcel[j].active
          /\ SameParcelAndRole("human_parcel", i, j) ) => i = j

\* The human and the address a reconciliation of context c ends with: the
\* row it linked the parcel to on a side that changed, the chain's row on a
\* side that did not.
ResultingHuman(c) ==
    IF last.contexts[c].same_human THEN last.cog[c][1].human
    ELSE db.human_parcel[last.writes[CHOOSE i \in WritesTo(c, "insert", "human_parcel") : TRUE].id]
             .human_humanid
ResultingAddress(c) ==
    IF last.contexts[c].same_address THEN last.cog[c][1].address
    ELSE db.parcel_address[last.writes[CHOOSE i \in WritesTo(c, "insert", "parcel_address") : TRUE].id]
             .mailingaddress_addressid

\* C16 (cross-link): a reconciliation that returns inserts exactly one
\* human-address link when either side changed and none when neither did;
\* the link is under the addressee-role and ties the resulting human to the
\* resulting address, both of them rows that are active when it is inserted.
C16_CrossLink ==
    \A c \in ContextNames :
        (Ran(c) /\ last.contexts[c].err = "none") =>
            IF last.contexts[c].same_human /\ last.contexts[c].same_address
            THEN WritesTo(c, "insert", "human_address") = {}
            ELSE /\ Cardinality(WritesTo(c, "insert", "human_address")) = 1
                 /\ \A k \in WritesTo(c, "insert", "human_address") :
                       /\ db.human_address[last.writes[k].id].linkedobjectrole_lorid = RolesOf(c)[2]
                       /\ db.human_address[last.writes[k].id].humanmailing_humanid
                             = ResultingHuman(c)
                       /\ db.human_address[last.writes[k].id].humanmailing_addressid
                             = ResultingAddress(c)
                       /\ ResultingHuman(c) # NoId
                       /\ ResultingAddress(c) # NoId
                       /\ ActiveAt(k, "human", ResultingHuman(c))
                       /\ ActiveAt(k, "address", ResultingAddress(c))

\* The mortgage context of the latest call had a chain with an address and
\* its reconciliation found nothing to change.
MortgageUntouched ==
    /\ last.n > 0
    /\ last.err = "none"
    /\ last.cog.mortgage[1].address # NoId
    /\ last.contexts.mortgage.same_address
    /\ last.contexts.mortgage.same_human

\* C17 (role independence): then, whatever the reconciliation of the general
\* context did, the mortgage parcel-address link and its address are still
\* active and the mortgage chain reads back with the values it had.
C17_MortgageChainKept ==
    MortgageUntouched =>
        /\ db.parcel_address[last.cog.mortgage[1].parcel_address].active
        /\ db.address[last.cog.mortgage[1].address].active
        /\ ReadBack(db, last.parcel).err = "none"
        /\ ReadBack(db, last.parcel).ret[1].mortgage = Scraped("mortgage")

\* C18 (returned value round trip): every reconciliation that returns
\* returns the scraped owner and mailing, on a side it left alone and on a
\* side it replaced, and so does the call.
C18_ReturnsScraped ==
    /\ \A c \in ContextNames :
          (Ran(c) /\ last.contexts[c].err = "none") => last.contexts[c].ret = Scraped(c)
    /\ (last.n > 0 /\ last.err = "none") => last.ret = last.county.data

\* C18's case: a reconciliation left the address alone and replaced the
\* human, by one with several entities, and another replaced the address.
C18_KeptAndReplaced ==
    /\ last.n > 0
    /\ last.err = "none"
    /\ \E c \in ContextNames :
          /\ last.contexts[c].same_address
          /\ Scraped(c).mailing # None
          /\ ~last.contexts[c].same_human
          /\ Scraped(c).owner[1].is_multi_entity
    /\ \E c \in ContextNames :
          /\ ~last.contexts[c].same_address
          /\ last.cog[c][1].address # NoId

\* The context whose reconciliation made the write.
ContextOf(write) == CHOOSE c \in ContextNames : RolesOf(c)[1] = write.ctx
Retirable == {"parcel_address", "human_address", "human_parcel", "address", "human"}

\* C19 (street and city_state_zip are never retired): every row a call
\* deactivates is the parcel-address link, human-address link, human-parcel
\* link, address or human of the chain its reconciliation was given, and
\* every street and city_state_zip row is active.
C19_OnlyChainRowsRetired ==
    /\ \A i \in DOMAIN last.writes :
          last.writes[i].op = "deactivate" =>
              /\ last.writes[i].table \in Retirable
              /\ last.writes[i].id = last.cog[ContextOf(last.writes[i])][1][last.writes[i].table]
    /\ \A i \in DOMAIN db.street : db.street[i].active
    /\ \A i \in DOMAIN db.city_state_zip : db.city_state_zip[i].active

\* C19's case: a call retired an address whose street and city_state_zip are
\* still active.
C19_AddressRetired ==
    \E i \in DOMAIN last.writes :
        /\ last.writes[i].op = "deactivate"
        /\ last.writes[i].table = "address"
        /\ ~db.address[last.writes[i].id].active
        /\ db.street[db.address[last.writes[i].id].street_streetid].active
        /\ db.city_state_zip[db.street[db.address[last.writes[i].id].street_streetid]
                                .citystatezip_cszipid].active

\* C20 (a null scraped mailing is handled): every reconciliation, also of a
\* scraped mailing of None against a chain with an address, returns, and
\* every human-address link it inserts has a human id and an address id.
C20_NullMailingHandled ==
    \A c \in ContextNames :
        Ran(c) =>
            /\ last.contexts[c].err = "none"
            /\ \A k \in WritesTo(c, "insert", "human_address") :
                  /\ db.human_address[last.writes[k].id].humanmailing_humanid # NoId
                  /\ db.human_address[last.writes[k].id].humanmailing_addressid # NoId

====
